---------------------------- MODULE Spec2Model ----------------------------
(***************************************************************************)
(* Model of monitor.py: the eBay camera-lot monitor.  One run of main()    *)
(* loads the seen cache, fetches every search target, scores the unseen    *)
(* listings, saves the cache, ranks the retained listings and hands the    *)
(* best ones to Telegram.                                                  *)
(*                                                                         *)
(* Strings are sequences of one-character strings, so that lower(),        *)
(* substring tests and the regular expressions are computed character by   *)
(* character, as re and str do.                                            *)
(***************************************************************************)
EXTENDS Integers, Sequences, FiniteSets, TLC

(***************************************************************************)
(* Configuration tables of monitor.py                                      *)
(***************************************************************************)
\* junk, spares, broken, repair, parts only, accessories only, camera case lot, camera cases lot, camera bag lot, camera bags lot
BLOCKLIST ==
  { <<"j","u","n","k">>,
     <<"s","p","a","r","e","s">>,
     <<"b","r","o","k","e","n">>,
     <<"r","e","p","a","i","r">>,
     <<"p","a","r","t","s"," ","o","n","l","y">>,
     <<"a","c","c","e","s","s","o","r","i","e","s"," ","o","n","l","y">>,
     <<"c","a","m","e","r","a"," ","c","a","s","e"," ","l","o","t">>,
     <<"c","a","m","e","r","a"," ","c","a","s","e","s"," ","l","o","t">>,
     <<"c","a","m","e","r","a"," ","b","a","g"," ","l","o","t">>,
     <<"c","a","m","e","r","a"," ","b","a","g","s"," ","l","o","t">> }

\* nikon, canon, olympus, pentax, konica, minolta, sony, panasonic, fujifilm, ricoh, casio, kodak, polaroid, leica, hasselblad, mamiya, contax, yashica, zenit, praktica, chinon, rollei, agfa
BRANDS ==
  { <<"n","i","k","o","n">>,
     <<"c","a","n","o","n">>,
     <<"o","l","y","m","p","u","s">>,
     <<"p","e","n","t","a","x">>,
     <<"k","o","n","i","c","a">>,
     <<"m","i","n","o","l","t","a">>,
     <<"s","o","n","y">>,
     <<"p","a","n","a","s","o","n","i","c">>,
     <<"f","u","j","i","f","i","l","m">>,
     <<"r","i","c","o","h">>,
     <<"c","a","s","i","o">>,
     <<"k","o","d","a","k">>,
     <<"p","o","l","a","r","o","i","d">>,
     <<"l","e","i","c","a">>,
     <<"h","a","s","s","e","l","b","l","a","d">>,
     <<"m","a","m","i","y","a">>,
     <<"c","o","n","t","a","x">>,
     <<"y","a","s","h","i","c","a">>,
     <<"z","e","n","i","t">>,
     <<"p","r","a","k","t","i","c","a">>,
     <<"c","h","i","n","o","n">>,
     <<"r","o","l","l","e","i">>,
     <<"a","g","f","a">> }

\* job lot, joblot, bundle, collection, mixed lot, mixed, house clearance, loft find, garage find, estate, charity, vintage, old, retro
UK_HINTS ==
  { <<"j","o","b"," ","l","o","t">>,
     <<"j","o","b","l","o","t">>,
     <<"b","u","n","d","l","e">>,
     <<"c","o","l","l","e","c","t","i","o","n">>,
     <<"m","i","x","e","d"," ","l","o","t">>,
     <<"m","i","x","e","d">>,
     <<"h","o","u","s","e"," ","c","l","e","a","r","a","n","c","e">>,
     <<"l","o","f","t"," ","f","i","n","d">>,
     <<"g","a","r","a","g","e"," ","f","i","n","d">>,
     <<"e","s","t","a","t","e">>,
     <<"c","h","a","r","i","t","y">>,
     <<"v","i","n","t","a","g","e">>,
     <<"o","l","d">>,
     <<"r","e","t","r","o">> }

\* huge lot, massive lot, large lot, big lot, bulk, box of, crate of, bag of, bundle of
BIG_LOT_HINTS ==
  { <<"h","u","g","e"," ","l","o","t">>,
     <<"m","a","s","s","i","v","e"," ","l","o","t">>,
     <<"l","a","r","g","e"," ","l","o","t">>,
     <<"b","i","g"," ","l","o","t">>,
     <<"b","u","l","k">>,
     <<"b","o","x"," ","o","f">>,
     <<"c","r","a","t","e"," ","o","f">>,
     <<"b","a","g"," ","o","f">>,
     <<"b","u","n","d","l","e"," ","o","f">> }

\* one: 1, two: 2, three: 3, four: 4, five: 5, six: 6, seven: 7, eight: 8, nine: 9, ten: 10, twenty: 20, thirty: 30, forty: 40, fifty: 50, sixty: 60, seventy: 70, eighty: 80, ninety: 90, hundred: 100, hundreds: 100
WORD_NUMBERS ==
  << <<<<"o","n","e">>, 1>>,
     <<<<"t","w","o">>, 2>>,
     <<<<"t","h","r","e","e">>, 3>>,
     <<<<"f","o","u","r">>, 4>>,
     <<<<"f","i","v","e">>, 5>>,
     <<<<"s","i","x">>, 6>>,
     <<<<"s","e","v","e","n">>, 7>>,
     <<<<"e","i","g","h","t">>, 8>>,
     <<<<"n","i","n","e">>, 9>>,
     <<<<"t","e","n">>, 10>>,
     <<<<"t","w","e","n","t","y">>, 20>>,
     <<<<"t","h","i","r","t","y">>, 30>>,
     <<<<"f","o","r","t","y">>, 40>>,
     <<<<"f","i","f","t","y">>, 50>>,
     <<<<"s","i","x","t","y">>, 60>>,
     <<<<"s","e","v","e","n","t","y">>, 70>>,
     <<<<"e","i","g","h","t","y">>, 80>>,
     <<<<"n","i","n","e","t","y">>, 90>>,
     <<<<"h","u","n","d","r","e","d">>, 100>>,
     <<<<"h","u","n","d","r","e","d","s">>, 100>> >>

\* camera, cameras, camcorder, camcorders
NOUNS ==
  { <<"c","a","m","e","r","a">>,
     <<"c","a","m","e","r","a","s">>,
     <<"c","a","m","c","o","r","d","e","r">>,
     <<"c","a","m","c","o","r","d","e","r","s">> }

\* lot, job lot, joblot, bundle, box, crate, bag
LOT_WORDS ==
  { <<"l","o","t">>,
     <<"j","o","b"," ","l","o","t">>,
     <<"j","o","b","l","o","t">>,
     <<"b","u","n","d","l","e">>,
     <<"b","o","x">>,
     <<"c","r","a","t","e">>,
     <<"b","a","g">> }

\* camera, cameras, compact, digicam, dslr, slr, tlr, rangefinder, film, 35mm, instant, camcorder
TYPE_WORDS ==
  { <<"c","a","m","e","r","a">>,
     <<"c","a","m","e","r","a","s">>,
     <<"c","o","m","p","a","c","t">>,
     <<"d","i","g","i","c","a","m">>,
     <<"d","s","l","r">>,
     <<"s","l","r">>,
     <<"t","l","r">>,
     <<"r","a","n","g","e","f","i","n","d","e","r">>,
     <<"f","i","l","m">>,
     <<"3","5","m","m">>,
     <<"i","n","s","t","a","n","t">>,
     <<"c","a","m","c","o","r","d","e","r">> }

\* shutter working, shutters working, tested working, fully working
WORKING_HINTS ==
  { <<"s","h","u","t","t","e","r"," ","w","o","r","k","i","n","g">>,
     <<"s","h","u","t","t","e","r","s"," ","w","o","r","k","i","n","g">>,
     <<"t","e","s","t","e","d"," ","w","o","r","k","i","n","g">>,
     <<"f","u","l","l","y"," ","w","o","r","k","i","n","g">> }

(***************************************************************************)
(* Character classes and the regular-expression primitives                 *)
(***************************************************************************)
UPPER ==
  <<"A","B","C","D","E","F","G","H","I","J","K","L","M",
    "N","O","P","Q","R","S","T","U","V","W","X","Y","Z">>

LOWER ==
  <<"a","b","c","d","e","f","g","h","i","j","k","l","m",
    "n","o","p","q","r","s","t","u","v","w","x","y","z">>

DIGITS ==
  <<"0","1","2","3","4","5","6","7","8","9">>

Range(s) ==
  {s[i] : i \in 1..Len(s)}

\* str.lower() on one character.
LowerChar(c) ==
  IF \E i \in 1..Len(UPPER) : UPPER[i] = c
    THEN LOWER[CHOOSE i \in 1..Len(UPPER) : UPPER[i] = c]
    ELSE c

\* A lower() that leaves the capitals as they are.
Lower_Identity(s) ==
  s

\* str.lower()
Lower(s) ==
  [i \in 1..Len(s) |-> LowerChar(s[i])]

\* \w of re on str: letters, digits and the underscore.
WordChars ==
  Range(UPPER) \cup Range(LOWER) \cup Range(DIGITS) \cup {"_"}

IsWordAt(t, p) ==
  p \in 1..Len(t) /\ t[p] \in WordChars

IsDigitAt(t, p) ==
  p \in 1..Len(t) /\ t[p] \in Range(DIGITS)

\* \b between t[p] and t[p+1], for p in 0..Len(t).
Boundary(t, p) ==
  IsWordAt(t, p) # IsWordAt(t, p + 1)

\* The literal w occupies t[p .. p+Len(w)-1].
LitAt(t, p, w) ==
  /\ p >= 1
  /\ p + Len(w) - 1 <= Len(t)
  /\ \A j \in 1..Len(w) : t[p + j - 1] = w[j]

\* Python's  w in t
Contains(t, w) ==
  \E p \in 1..(Len(t) - Len(w) + 1) : LitAt(t, p, w)

\* \s* from p: the positions the match may continue at.
SpacesTo(t, p) ==
  {q \in p..(Len(t) + 1) : \A k \in p..(q - 1) : t[k] = " "}

\* \s+ from p
Spaces1To(t, p) ==
  SpacesTo(t, p) \ {p}

\* (?:camera|cameras|camcorder|camcorders)\b at p
NounAt(t, p) ==
  \E n \in NOUNS : LitAt(t, p, n) /\ Boundary(t, p + Len(n) - 1)

DigitValue(c) ==
  (CHOOSE d \in 1..Len(DIGITS) : DIGITS[d] = c) - 1

\* int() of the one to four digits that \d{1,4} has matched
IntOf(ds) ==
  LET n == Len(ds)
      Place(i) == IF i <= n THEN DigitValue(ds[i]) * 10^(n - i) ELSE 0
  IN  Place(1) + Place(2) + Place(3) + Place(4)

(***************************************************************************)
(* extract_qty: the return value is <<>> for None and <<n>> for the int n  *)
(***************************************************************************)
\* \s*(?:x\s*)?(?:camera|cameras|camcorder|camcorders)\b  at p
QtyTailAt(t, p) ==
  \E q \in SpacesTo(t, p) :
     \/ NounAt(t, q)
     \/ /\ LitAt(t, q, <<"x">>)
        /\ \E r \in SpacesTo(t, q + 1) : NounAt(t, r)

\* The matches <<start, digits>> of
\*   \b(\d{1,4})\s*(?:x\s*)?(?:camera|cameras|camcorder|camcorders)\b
DigitNounMatches(t) ==
  {m \in (1..Len(t)) \X (1..4) :
     /\ Boundary(t, m[1] - 1)
     /\ \A j \in 0..(m[2] - 1) : IsDigitAt(t, m[1] + j)
     /\ QtyTailAt(t, m[1] + m[2])}

\* The matches <<start, digit position, digits>> of
\*   \b(?:lot|job lot|joblot|bundle|box|crate|bag)\s+of\s+(\d{1,4})\b
LotOfMatches(t) ==
  {m \in (1..Len(t)) \X (1..Len(t)) \X (1..4) :
     /\ Boundary(t, m[1] - 1)
     /\ \A j \in 0..(m[3] - 1) : IsDigitAt(t, m[2] + j)
     /\ Boundary(t, m[2] + m[3] - 1)
     /\ \E w \in LOT_WORDS :
          /\ LitAt(t, m[1], w)
          /\ \E q \in Spaces1To(t, m[1] + Len(w)) :
               /\ LitAt(t, q, <<"o","f">>)
               /\ m[2] \in Spaces1To(t, q + 2)}

\* re.search: the leftmost match, its \d{1,4} greedy.
FirstDigitNoun(t) ==
  CHOOSE m \in DigitNounMatches(t) :
    \A n \in DigitNounMatches(t) :
       m[1] < n[1] \/ (m[1] = n[1] /\ m[2] >= n[2])

FirstLotOf(t) ==
  CHOOSE m \in LotOfMatches(t) :
    \A n \in LotOfMatches(t) :
       m[1] < n[1] \/ (m[1] = n[1] /\ m[3] >= n[3])

\* re.search(rf"\b{w}\s+(?:camera|cameras|camcorder|camcorders)\b", t)
WordNounFound(t, w) ==
  \E p \in 1..Len(t) :
     /\ Boundary(t, p - 1)
     /\ LitAt(t, p, w)
     /\ \E q \in Spaces1To(t, p + Len(w)) : NounAt(t, q)

\* re.search(r"\bone\s+hundred\s+(?:camera|...)\b", t)
OneHundredFound(t) ==
  \E p \in 1..Len(t) :
     /\ Boundary(t, p - 1)
     /\ LitAt(t, p, <<"o","n","e">>)
     /\ \E q \in Spaces1To(t, p + 3) :
          /\ LitAt(t, q, <<"h","u","n","d","r","e","d">>)
          /\ \E r \in Spaces1To(t, q + 7) : NounAt(t, r)

extract_qty(title) ==
  LET t == Lower(title)
      words == {i \in 1..Len(WORD_NUMBERS) : WordNounFound(t, WORD_NUMBERS[i][1])}
  IN  IF DigitNounMatches(t) # {}
        THEN LET m == FirstDigitNoun(t)
             IN  <<IntOf(SubSeq(t, m[1], m[1] + m[2] - 1))>>
      ELSE IF LotOfMatches(t) # {}
        THEN LET m == FirstLotOf(t)
             IN  <<IntOf(SubSeq(t, m[2], m[2] + m[3] - 1))>>
      ELSE IF words # {}
        THEN <<WORD_NUMBERS[CHOOSE i \in words : \A j \in words : i <= j][2]>>
      ELSE IF OneHundredFound(t)
        THEN <<100>>
      ELSE <<>>

(***************************************************************************)
(* hard_reject and score_listing                                           *)
(***************************************************************************)
REJECTED ==
  -999

hard_reject(title) ==
  LET t == Lower(title)
  IN  \E w \in BLOCKLIST : Contains(t, w)

\* re.search(r"\b(w1|w2|...)\b", t)
WholeWordFound(t, ws) ==
  \E p \in 1..Len(t) :
     /\ Boundary(t, p - 1)
     /\ \E w \in ws : LitAt(t, p, w) /\ Boundary(t, p + Len(w) - 1)

\* The quantity bonus of score_listing.
QtyBonus(qty) ==
  IF qty = <<>>
    THEN 0
    ELSE 2 + (IF qty[1] >= 20 THEN 3 ELSE 0)
           + (IF qty[1] >= 50 THEN 4 ELSE 0)
           + (IF qty[1] >= 100 THEN 5 ELSE 0)

score_listing(title) ==
  LET t == Lower(title)
  IN  IF hard_reject(t)
        THEN REJECTED
        ELSE (IF WholeWordFound(t, TYPE_WORDS) THEN 2 ELSE 0)
           + (IF \E b \in BRANDS : Contains(t, b) THEN 2 ELSE 0)
           + Cardinality({w \in UK_HINTS : Contains(t, w)})
           + 2 * Cardinality({w \in BIG_LOT_HINTS : Contains(t, w)})
           + QtyBonus(extract_qty(title))
           + (IF WholeWordFound(t, WORKING_HINTS) THEN 2 ELSE 0)

(***************************************************************************)
(* Titles the scorer and the quantity extractor are applied to: up to      *)
(* MaxTokens tokens joined by single spaces.                               *)
(***************************************************************************)
MaxTokens ==
  3

TOKENS ==
  << <<"0">>,
     <<"0","0","0","0">>,
     <<"2","0">>,
     <<"1","0","0">>,
     <<"c","a","m","e","r","a","s">>,
     <<"x">>,
     <<"l","o","t"," ","o","f">>,
     <<"J","U","N","K">>,
     <<"N","i","k","o","n">>,
     <<"s","e","v","e","n","t","y">>,
     <<"f","u","l","l","y"," ","w","o","r","k","i","n","g">> >>

RECURSIVE JoinTokens(_)
JoinTokens(ix) ==
  IF Len(ix) = 1
    THEN TOKENS[ix[1]]
    ELSE JoinTokens(SubSeq(ix, 1, Len(ix) - 1)) \o <<" ">> \o TOKENS[ix[Len(ix)]]

Titles ==
  {JoinTokens(ix) : ix \in UNION {[1..n -> 1..Len(TOKENS)] : n \in 1..MaxTokens}}

(***************************************************************************)
(* Term rotation                                                           *)
(***************************************************************************)
WINDOW ==
  300

\* len(SEARCH_GROUPS)
NUM_GROUPS ==
  7

\* The window rounded to the nearest instead of floored.
pick_group_Rounded(t) ==
  ((t + (WINDOW \div 2)) \div WINDOW) % NUM_GROUPS

\* int(time.time() // 300) % len(SEARCH_GROUPS), for the clock reading t
pick_group(t) ==
  (t \div WINDOW) % NUM_GROUPS

(***************************************************************************)
(* The listings on the marketplace: a listing is its identifier (the link  *)
(* of fetch_search), and CatalogTitle gives the title it is listed under.  *)
(***************************************************************************)
MaxIds ==
  10

SmallIds ==
  2

CATALOG ==
  << <<"N","i","k","o","n"," ","c","a","m","e","r","a","s">>,
     <<"c","a","n","o","n"," ","c","a","m","e","r","a">>,
     <<"1","0","0"," ","c","a","m","e","r","a","s">>,
     <<"o","l","d"," ","f","i","l","m">>,
     <<"b","u","n","d","l","e"," ","o","f"," ","2","0"," ","c","a","m","e","r","a","s">>,
     <<"s","e","v","e","n","t","y"," ","c","a","m","e","r","a","s">>,
     <<"N","i","k","o","n"," ","c","a","m","e","r","a","s">>,
     <<"o","l","d"," ","f","i","l","m">>,
     <<"J","U","N","K"," ","c","a","m","e","r","a","s">>,
     <<"n","i","k","o","n">> >>

CatalogTitle(id) ==
  CATALOG[((id - 1) % Len(CATALOG)) + 1]

\* s = score_listing(it["title"]) for each of the listings 1..n
ScoreTable(n) ==
  SubSeq([id \in 1..n |-> score_listing(CatalogTitle(id))], 1, n)

(***************************************************************************)
(* seen.json.  kind says what open/json.load/.get/set make of the file;    *)
(* a "mapping" file holds the members ids and, besides them, anon further  *)
(* identifiers that no listing of the marketplace carries any more.        *)
(* A member 0 stands for a JSON value that is not a string.                *)
(***************************************************************************)
SEEN_CAP ==
  3000

NonStrings ==
  {0}

\* The members of S in some order.
SeqOf(S) ==
  CHOOSE s \in [1..Cardinality(S) -> S] : Range(s) = S

Min(a, b) ==
  IF a <= b THEN a ELSE b

Max(a, b) ==
  IF a >= b THEN a ELSE b

\* load_seen: the set read, or set() when the file is missing or the read raises.
load_seen(f) ==
  IF f.kind = "mapping"
    THEN [ids |-> f.ids, anon |-> f.anon]
    ELSE [ids |-> {}, anon |-> 0]

\* save_seen: list(seen)[-3000:] keeps the last 3000 members in the
\* iteration order of the set, which is the order of the hash table and not
\* the order of insertion: any 3000 members may be the ones kept.
SaveChoices(ids, n) ==
  LET keep == Min(SEEN_CAP, Cardinality(ids) + n)
  IN  {[kind |-> "mapping", ids |-> K, anon |-> keep - Cardinality(K)] :
         K \in {S \in SUBSET ids : /\ Cardinality(S) <= keep
                                   /\ keep - Cardinality(S) <= n}}

(***************************************************************************)
(* main: the loop over the results of one target (lines 294-301)           *)
(***************************************************************************)
\* The urls of a run: the targets 1..NumTargets.
NumTargets ==
  2

ALERT_MIN ==
  3

MAX_ALERTS ==
  7

\* The loop without its test of seen.
AlreadySeen_Never(seenIds, id) ==
  FALSE

\* if it["id"] in seen: continue
AlreadySeen(seenIds, id) ==
  id \in seenIds

\* seen.add(it["id"])
MarkSeen(seenIds, id) ==
  seenIds \cup {id}

\* if s >= 3: alerts.append((s, it))
Retain(as, id, s) ==
  IF s >= ALERT_MIN THEN Append(as, <<s, id>>) ELSE as

\* The loop with seen.add moved under  if s >= 3.
ProcessItem_SeenIfAlerted(st, id, sc) ==
  IF AlreadySeen(st.seen, id)
    THEN st
    ELSE IF sc[id] >= ALERT_MIN
      THEN [seen   |-> MarkSeen(st.seen, id),
            order  |-> Append(st.order, id),
            alerts |-> Retain(st.alerts, id, sc[id])]
      ELSE st

\* One listing of the results; sc holds score_listing of every title.
ProcessItem(st, id, sc) ==
  IF AlreadySeen(st.seen, id)
    THEN st
    ELSE [seen   |-> MarkSeen(st.seen, id),
          order  |-> Append(st.order, id),
          alerts |-> Retain(st.alerts, id, sc[id])]

RECURSIVE ProcessResults(_, _, _)
ProcessResults(st, results, sc) ==
  IF results = <<>>
    THEN st
    ELSE ProcessResults(ProcessItem(st, Head(results), sc), Tail(results), sc)

\* A fetch error that leaves the loop (break for continue).
AfterFetchError_Break(i) ==
  NumTargets + 1

\* except Exception ...: continue
AfterFetchError(i) ==
  i + 1

(***************************************************************************)
(* main: alerts.sort(key=lambda x: x[0], reverse=True); alerts[:7]         *)
(***************************************************************************)
\* A sort that puts an entry before the entries of its own score.
RECURSIVE InsertByScore_TiesFirst(_, _)
InsertByScore_TiesFirst(sorted, a) ==
  IF sorted = <<>>
    THEN <<a>>
    ELSE IF Head(sorted)[1] > a[1]
      THEN <<Head(sorted)>> \o InsertByScore_TiesFirst(Tail(sorted), a)
      ELSE <<a>> \o sorted

\* list.sort is stable, also with reverse=True: a is put behind every entry
\* whose score is at least its own.
RECURSIVE InsertByScore(_, _)
InsertByScore(sorted, a) ==
  IF sorted = <<>>
    THEN <<a>>
    ELSE IF Head(sorted)[1] >= a[1]
      THEN <<Head(sorted)>> \o InsertByScore(Tail(sorted), a)
      ELSE <<a>> \o sorted

RECURSIVE SortByScore(_)
SortByScore(as) ==
  IF as = <<>>
    THEN <<>>
    ELSE InsertByScore(SortByScore(SubSeq(as, 1, Len(as) - 1)), as[Len(as)])

Truncate(as) ==
  SubSeq(as, 1, Min(MAX_ALERTS, Len(as)))

Ids(as) ==
  {as[k][2] : k \in 1..Len(as)}

(***************************************************************************)
(* The inputs of a run                                                     *)
(***************************************************************************)
Asc(n) ==
  [i \in 1..n |-> i]

Desc(n) ==
  [i \in 1..n |-> n + 1 - i]

\* What fetch_search may return for one target: nothing, the first listing
\* of the marketplace in either order, or all of them in either order.
Pages(n) ==
  {SubSeq(s, 1, k) : s \in {Asc(n), Desc(n)}, k \in {0, 1, n}}

\* requests.post answers 200, answers another status, or raises; or the
\* Telegram secrets are not set.
TgOutcomes ==
  {"ok", "non200", "no_secrets", "raise"}

InitFiles ==
  {[kind |-> k, ids |-> {}, anon |-> 0] :
     k \in {"absent", "invalid_json", "not_mapping", "bad_seen_ids"}}
  \cup {[kind |-> "mapping", ids |-> NonStrings, anon |-> 0]}
  \cup {[kind |-> "mapping", ids |-> {}, anon |-> a] : a \in {SEEN_CAP - 1, SEEN_CAP}}

(***************************************************************************)
(* State                                                                   *)
(***************************************************************************)
VARIABLES
  file,        \* seen.json
  market,      \* how many listings the marketplace holds: 1..market
  scores,      \* score_listing of the title of each listing
  pc,          \* where main is: idle, fetch, notify, done, crashed
  seen,        \* main's set seen: the members some listing carries
  anon,        \* main's set seen: how many further members it holds
  alerts,      \* main's list alerts, of <<score, listing>>
  url_i,       \* position of the loop over urls
  sent,        \* the alerts passed to tg_send in this run
  tg_failed,   \* some tg_send so far has logged or raised an error
  seen0,       \* history: seen as load_seen returned it
  order,       \* history: the members of seen, oldest insertion first
  retained,    \* history: alerts before the sort and the cut to 7
  attempts,    \* history: per target, the calls of fetch_search in this run
  failed,      \* history: the targets whose fetch raised in this run
  encountered, \* history: the listings the fetches of this run returned
  evicted,     \* history: members a save has dropped
  lost,        \* history: retained by an earlier run, never passed to
               \*          tg_send, and in the store ever since
  alert_count, \* history: per listing, the calls of tg_send for it (to 2)
  title,       \* scorer: the title
  sc_pc,       \* scorer: input, scored
  score,       \* scorer: score_listing(title)
  qty,         \* scorer: extract_qty(title)
  now,         \* rotation: the clock reading
  group_idx,   \* rotation: pick_group() at now
  prev_now,    \* rotation: the clock reading of the run before
  prev_idx,    \* rotation: its group
  chain,       \* rotation: the groups of the latest consecutive windows
  picks,       \* rotation: runs so far
  rot_pc       \* rotation: clock, picked

runVars ==
  <<file, market, scores, pc, seen, anon, alerts, url_i, sent, tg_failed,
    seen0, order, retained, attempts, failed, encountered, evicted, lost,
    alert_count>>

scoreVars ==
  <<title, sc_pc, score, qty>>

rotVars ==
  <<now, group_idx, prev_now, prev_idx, chain, picks, rot_pc>>

vars ==
  <<runVars, scoreVars, rotVars>>

RunIdle ==
  /\ file = [kind |-> "absent", ids |-> {}, anon |-> 0]
  /\ market = 0
  /\ scores = <<>>
  /\ pc = "off"
  /\ seen = {}
  /\ anon = 0
  /\ alerts = <<>>
  /\ url_i = 0
  /\ sent = <<>>
  /\ tg_failed = FALSE
  /\ seen0 = {}
  /\ order = <<>>
  /\ retained = <<>>
  /\ attempts = <<>>
  /\ failed = {}
  /\ encountered = {}
  /\ evicted = {}
  /\ lost = {}
  /\ alert_count = <<>>

ScoreIdle ==
  /\ title = <<>>
  /\ sc_pc = "off"
  /\ score = 0
  /\ qty = <<>>

RotIdle ==
  /\ now = 0
  /\ group_idx = 0
  /\ prev_now = 0
  /\ prev_idx = 0
  /\ chain = <<>>
  /\ picks = 0
  /\ rot_pc = "off"

(***************************************************************************)
(* The runs of main()                                                      *)
(***************************************************************************)
\* Before the first run: seen.json is missing, unreadable, of the wrong
\* shape, or holds a store at its cap; the marketplace is large where the
\* store is empty and small where the store is full.
Init ==
  /\ \/ /\ file = [kind |-> "absent", ids |-> {}, anon |-> 0]
        /\ market = MaxIds
     \/ /\ file \in InitFiles
        /\ market = SmallIds
  /\ scores = ScoreTable(market)
  /\ pc = "idle"
  /\ seen = {}
  /\ anon = 0
  /\ alerts = <<>>
  /\ url_i = 0
  /\ sent = <<>>
  /\ tg_failed = FALSE
  /\ seen0 = {}
  /\ order = SeqOf(load_seen(file).ids)
  /\ retained = <<>>
  /\ attempts = [u \in 1..NumTargets |-> 0]
  /\ failed = {}
  /\ encountered = {}
  /\ evicted = {}
  /\ lost = {}
  /\ alert_count = [id \in 1..market |-> 0]
  /\ ScoreIdle
  /\ RotIdle

\* main, lines 276-285: seen = load_seen(); alerts = []; the urls are built.
Load ==
  /\ pc \in {"idle", "done", "crashed"}
  /\ LET st == load_seen(file)
     IN  /\ seen' = st.ids
         /\ anon' = st.anon
         /\ seen0' = st.ids
         /\ order' = SelectSeq(order, LAMBDA m : m \in st.ids)
         /\ lost' = (lost \cup (Ids(retained) \ Ids(sent))) \cap st.ids
  /\ alerts' = <<>>
  /\ retained' = <<>>
  /\ sent' = <<>>
  /\ attempts' = [u \in 1..NumTargets |-> 0]
  /\ failed' = {}
  /\ encountered' = {}
  /\ url_i' = 1
  /\ pc' = "fetch"
  /\ UNCHANGED <<file, market, scores, tg_failed, evicted, alert_count>>

\* main, lines 287-303: one target.  fetch_search raises and the target is
\* skipped, or it returns a page whose listings are gone through.
FetchTarget ==
  /\ pc = "fetch"
  /\ url_i <= NumTargets
  /\ attempts' = [attempts EXCEPT ![url_i] = Min(2, @ + 1)]
  /\ \/ /\ failed' = failed \cup {url_i}
        /\ url_i' = AfterFetchError(url_i)
        /\ UNCHANGED <<seen, order, alerts, encountered>>
     \/ \E results \in Pages(market) :
          LET st == ProcessResults([seen |-> seen, order |-> order, alerts |-> alerts],
                                   results, scores)
          IN  /\ encountered' = encountered \cup Range(results)
              /\ UNCHANGED failed
              /\ seen' = st.seen
              /\ order' = st.order
              /\ alerts' = st.alerts
              /\ url_i' = url_i + 1
  /\ UNCHANGED <<file, market, scores, pc, anon, sent, tg_failed, seen0, retained,
                 evicted, lost, alert_count>>

\* main, lines 305-308: save_seen(seen), then the sort and the cut to 7.
SaveAndRank ==
  /\ pc = "fetch"
  /\ url_i > NumTargets
  /\ file' \in SaveChoices(seen, anon)
  /\ evicted' = evicted \cup (seen \ file'.ids)
  /\ retained' = alerts
  /\ alerts' = Truncate(SortByScore(alerts))
  /\ pc' = "notify"
  /\ UNCHANGED <<market, scores, seen, anon, url_i, sent, tg_failed, seen0, order,
                 attempts, failed, encountered, lost, alert_count>>

\* main, lines 310-331: the next alert is passed to tg_send.  An exception
\* of requests.post is caught nowhere: it ends main.
Notify ==
  /\ pc = "notify"
  /\ Len(sent) < Len(alerts)
  /\ LET a == alerts[Len(sent) + 1]
     IN  /\ sent' = Append(sent, a)
         /\ \E outcome \in TgOutcomes :
              /\ tg_failed' = (tg_failed \/ outcome # "ok")
              /\ pc' = IF outcome = "raise" THEN "crashed" ELSE "notify"
         /\ alert_count' = [alert_count EXCEPT ![a[2]] = Min(2, @ + 1)]
  /\ UNCHANGED <<file, market, scores, seen, anon, alerts, url_i, seen0, order,
                 retained, attempts, failed, encountered, evicted, lost>>

\* main, line 333: print("Done. ...")
Done ==
  /\ pc = "notify"
  /\ Len(sent) = Len(alerts)
  /\ pc' = "done"
  /\ UNCHANGED <<file, market, scores, seen, anon, alerts, url_i, sent, tg_failed,
                 seen0, order, retained, attempts, failed, encountered, evicted,
                 lost, alert_count>>

Next ==
  \/ (Load /\ UNCHANGED <<scoreVars, rotVars>>)
  \/ (FetchTarget /\ UNCHANGED <<scoreVars, rotVars>>)
  \/ (SaveAndRank /\ UNCHANGED <<scoreVars, rotVars>>)
  \/ (Notify /\ UNCHANGED <<scoreVars, rotVars>>)
  \/ (Done /\ UNCHANGED <<scoreVars, rotVars>>)

Spec ==
  Init /\ [][Next]_vars

(***************************************************************************)
(* The scorer and the quantity extractor on every title                    *)
(***************************************************************************)
InitScore ==
  /\ title \in Titles
  /\ sc_pc = "input"
  /\ score = 0
  /\ qty = <<>>
  /\ RunIdle
  /\ RotIdle

ScoreTitle ==
  /\ sc_pc = "input"
  /\ score' = score_listing(title)
  /\ qty' = extract_qty(title)
  /\ sc_pc' = "scored"
  /\ UNCHANGED <<title, runVars, rotVars>>

NextScore ==
  ScoreTitle

SpecScore ==
  InitScore /\ [][NextScore]_vars

(***************************************************************************)
(* The rotation over a sequence of runs                                    *)
(***************************************************************************)
MaxPicks ==
  9

\* The clock of the first run: at the start or the end of a window, of the
\* first or the last group, early or at a time of day of this decade.
StartTimes ==
  {e + w * WINDOW + o : e \in {0, 1762387200}, w \in {0, NUM_GROUPS - 1},
                        o \in {0, WINDOW - 1}}

\* The time from one run to the next.
Delays ==
  {0, 1, WINDOW - 1, WINDOW, 2 * WINDOW}

InitRot ==
  /\ now \in StartTimes
  /\ group_idx = 0
  /\ prev_now = now
  /\ prev_idx = 0
  /\ chain = <<>>
  /\ picks = 0
  /\ rot_pc = "clock"
  /\ RunIdle
  /\ ScoreIdle

\* group_idx = pick_group()
PickGroup ==
  /\ rot_pc = "clock"
  /\ group_idx' = pick_group(now)
  /\ chain' = IF picks > 0 /\ now \div WINDOW = prev_now \div WINDOW
                THEN chain
              ELSE IF picks > 0 /\ now \div WINDOW = (prev_now \div WINDOW) + 1
                THEN Append(chain, pick_group(now))
              ELSE <<pick_group(now)>>
  /\ picks' = picks + 1
  /\ rot_pc' = "picked"
  /\ UNCHANGED <<now, prev_now, prev_idx, runVars, scoreVars>>

\* The scheduler starts the next run.
NextRun ==
  /\ rot_pc = "picked"
  /\ picks < MaxPicks
  /\ \E d \in Delays : now' = now + d
  /\ prev_now' = now
  /\ prev_idx' = group_idx
  /\ rot_pc' = "clock"
  /\ UNCHANGED <<group_idx, chain, picks, runVars, scoreVars>>

NextRot ==
  PickGroup \/ NextRun

SpecRot ==
  InitRot /\ [][NextRot]_vars

(***************************************************************************)
(* Properties                                                              *)
(***************************************************************************)
\* main is past save_seen: at the notifications, finished, or ended by an
\* exception.
Saved ==
  pc \in {"notify", "done", "crashed"}

\* seen.json as json.dump left it: min(3000, len(seen)) members of seen.
HoldsSaveOf(f) ==
  /\ f.kind = "mapping"
  /\ f.ids \subseteq seen
  /\ f.anon <= anon
  /\ Cardinality(f.ids) + f.anon = Min(SEEN_CAP, Cardinality(seen) + anon)

\* C1 as stated: once an identifier has been added to the seen store, no
\* later processing of a listing with that identifier, in the same run or in
\* a later one, produces a second alert for it.  Stated for the histories in
\* which no notification has failed, so that a refutation does not rest on
\* an alert that Telegram refused.
C1_NeverSecondAlert ==
  ~tg_failed => \A id \in 1..market : alert_count[id] <= 1

\* C1 amended: an identifier that is in the store when a listing with it is
\* processed produces no alert: the identifiers load_seen returned are in no
\* alert of the run, no identifier is in two alerts of the run, and an
\* identifier passed to tg_send twice has been dropped by a save.
C1_NoAlertWhileInStore ==
  /\ \A k \in 1..Len(alerts) : alerts[k][2] \notin seen0
  /\ \A j, k \in 1..Len(alerts) : j # k => alerts[j][2] # alerts[k][2]
  /\ \A k \in 1..Len(sent) : sent[k] = alerts[k]
  /\ \A id \in 1..market : alert_count[id] >= 2 => id \in evicted

\* A finished run that met again a listing alerted by an earlier run and
\* still in the store, and retained no alert for it.
C1_Witness ==
  /\ pc = "done"
  /\ \E id \in encountered \cap seen0 :
        /\ alert_count[id] = 1
        /\ scores[id] >= ALERT_MIN
        /\ id \notin Ids(retained)

\* What a first-in-first-out eviction keeps of the store whose members were
\* inserted in the order ord, after n older ones.
FifoKept(ord, n) ==
  LET drop == Max(0, Len(ord) + n - SEEN_CAP)
      dropAnon == Min(drop, n)
  IN  [kind |-> "mapping",
       ids  |-> {ord[k] : k \in (drop - dropAnon + 1)..Len(ord)},
       anon |-> n - dropAnon]

\* C2 as stated: the saved store never exceeds 3000 identifiers, and the
\* identifiers a save drops are the oldest-inserted ones: the persisted list
\* is the most recently added 3000.
C2_FifoEviction ==
  Saved => /\ Cardinality(file.ids) + file.anon <= SEEN_CAP
           /\ file = FifoKept(order, anon)

\* C3: a fetch that raises does not end the run: every target is fetched
\* exactly once (none skipped, none retried), every listing the other
\* targets returned has been gone through (it is in seen, and in the alerts
\* if it was new and scores at least 3), and seen.json holds the save.
C3_FetchFailureIsolated ==
  /\ \A u \in 1..NumTargets : attempts[u] <= 1
  /\ failed \subseteq 1..NumTargets
  /\ Saved =>
       /\ \A u \in 1..NumTargets : attempts[u] = 1
       /\ \A id \in encountered :
            /\ id \in seen
            /\ (id \notin seen0 /\ scores[id] >= ALERT_MIN) => id \in Ids(retained)
       /\ HoldsSaveOf(file)

\* A finished run whose first target failed and which still sent an alert.
C3_Witness ==
  /\ pc = "done"
  /\ 1 \in failed
  /\ failed # 1..NumTargets
  /\ Len(sent) > 0
  /\ Ids(sent) \subseteq encountered

\* C4 as stated: however tg_send fails for one alert, the run is not
\* aborted: main never ends by an exception of the notifier.
C4_NotifyFailureNotFatal ==
  pc # "crashed"

\* C5: the group is floor(t / 300) mod 7; two runs in the same window pick
\* the same group, two runs exactly one window apart pick groups that differ
\* by 1 modulo 7, and the runs of 7 consecutive windows pick every group.
C5_Rotation ==
  rot_pc = "picked" =>
    /\ group_idx \in 0..(NUM_GROUPS - 1)
    /\ \E r \in 0..(WINDOW - 1) :
          /\ (now - r) % WINDOW = 0
          /\ group_idx = ((now - r) \div WINDOW) % NUM_GROUPS
    /\ picks > 1 =>
         /\ now - (now % WINDOW) = prev_now - (prev_now % WINDOW) => group_idx = prev_idx
         /\ now = prev_now + WINDOW => group_idx = (prev_idx + 1) % NUM_GROUPS
    /\ Len(chain) >= NUM_GROUPS =>
         {chain[k] : k \in (Len(chain) - NUM_GROUPS + 1)..Len(chain)} = 0..(NUM_GROUPS - 1)

\* Runs in 7 consecutive windows, the last exactly one window after the one
\* before it.
C5_Witness ==
  /\ rot_pc = "picked"
  /\ Len(chain) >= NUM_GROUPS
  /\ now = prev_now + WINDOW
  /\ group_idx = 0
  /\ prev_idx = NUM_GROUPS - 1

\* The place of a listing in the alerts as they were retained.
Encounter(id) ==
  CHOOSE k \in 1..Len(retained) : retained[k][2] = id

\* a goes before b: a higher score, or the same score and met earlier.
RanksBefore(a, b) ==
  \/ a[1] > b[1]
  \/ a[1] = b[1] /\ Encounter(a[2]) < Encounter(b[2])

\* C6: the alerts passed to tg_send are at most 7, they are the first 7 of
\* the retained listings by score descending, they are sent in that order,
\* and listings of the same score keep the order they were met in, in the
\* sequence sent and in which of them the cut to 7 keeps.
C6_RankedAndCut ==
  Saved =>
    /\ Len(alerts) = Min(MAX_ALERTS, Len(retained))
    /\ \A k \in 1..Len(alerts) : \E j \in 1..Len(retained) : alerts[k] = retained[j]
    /\ \A j, k \in 1..Len(alerts) : j < k => RanksBefore(alerts[j], alerts[k])
    /\ \A j \in 1..Len(retained) :
          retained[j][2] \notin Ids(alerts) =>
             \A k \in 1..Len(alerts) : RanksBefore(alerts[k], retained[j])
    /\ Len(sent) <= Len(alerts)
    /\ \A k \in 1..Len(sent) : sent[k] = alerts[k]
    /\ pc = "done" => sent = alerts

\* A finished run that retained more than 7 listings, sent two of the same
\* score, and cut one of the same score as one it sent.
C6_Witness ==
  /\ pc = "done"
  /\ Len(retained) > MAX_ALERTS
  /\ Len(sent) = MAX_ALERTS
  /\ \E j, k \in 1..Len(sent) : j < k /\ sent[j][1] = sent[k][1]
  /\ \E j \in 1..Len(retained) :
        /\ retained[j][2] \notin Ids(sent)
        /\ \E k \in 1..Len(sent) : sent[k][1] = retained[j][1]

\* c is the letter d, in either case.
SameLetter(c, d) ==
  c = d \/ \E i \in 1..Len(UPPER) : UPPER[i] = c /\ LOWER[i] = d

\* The title holds a blocklist phrase, in whatever case.
HoldsBlockPhrase(t) ==
  \E w \in BLOCKLIST :
     \E p \in 1..(Len(t) - Len(w) + 1) :
        \A j \in 1..Len(w) : SameLetter(t[p + j - 1], w[j])

\* C7: a title that holds a blocklist phrase, in whatever case, scores the
\* hard-reject value -999 whatever else it holds, with no contribution
\* added; any other title scores a non-negative integer.
C7_BlocklistRejects ==
  sc_pc = "scored" =>
    IF HoldsBlockPhrase(title) THEN score = REJECTED ELSE score >= 0

\* A rejected title whose blocklist phrase is written in capitals and which
\* also holds a type word and a quantity of 100.
C7_Witness ==
  /\ sc_pc = "scored"
  /\ score = REJECTED
  /\ qty = <<100>>
  /\ \E p \in 1..Len(title) : title[p] = "J"

\* C8 as stated: extract_qty returns a positive integer or unknown; a count
\* of zero is never returned.
C8_QtyPositiveOrUnknown ==
  sc_pc = "scored" => (qty = <<>> \/ qty[1] >= 1)

\* The file is a mapping whose seen_ids are all strings.
WellFormed(f) ==
  f.kind = "mapping" /\ f.ids \cap NonStrings = {}

\* C9 as stated: when seen.json is missing, is not JSON or has the wrong
\* shape, the store the run starts from is empty, and the save at the end of
\* the run leaves a well-formed list of identifiers.
C9_FailOpenLoad ==
  /\ (pc = "fetch" /\ ~WellFormed(file)) => (seen0 = {} /\ anon = 0)
  /\ Saved => WellFormed(file)

\* C10: a listing met in a run is in seen whatever its score; seen.json
\* holds the save before the first alert is passed to tg_send; and a
\* listing that an earlier run retained and never passed to tg_send is in
\* no alert of a later run while its identifier stays in the store.
C10_SeenOnceLostForGood ==
  /\ encountered \subseteq seen
  /\ Len(sent) > 0 => (Saved /\ HoldsSaveOf(file))
  /\ lost \subseteq seen0
  /\ \A k \in 1..Len(alerts) : alerts[k][2] \notin lost
  /\ \A k \in 1..Len(sent) : sent[k][2] \notin lost

\* A finished run, in a history without any failed notification, that met
\* again a listing scoring at least 3 which the cut to 7 of an earlier run
\* had dropped: it was never passed to tg_send.
C10_Witness ==
  /\ pc = "done"
  /\ ~tg_failed
  /\ \E id \in lost \cap encountered :
        /\ scores[id] >= ALERT_MIN
        /\ alert_count[id] = 0
  /\ \E id \in encountered : scores[id] < ALERT_MIN /\ id \in seen

=============================================================================
